---- MODULE Spec2Model ----
(***************************************************************************)
(* Model of hutils::cache::FnCacher (src/src/cache.rs).                     *)
(*                                                                         *)
(* A FnCacher owns a function F: Fn(&T) -> R and a HashMap<&'a T, R>.       *)
(* Keys are references to caller-owned objects; the map compares keys by   *)
(* the value of the referent (T: Eq + Hash), not by address.  The caller   *)
(* is one thread: at most one call is in progress at any time.             *)
(***************************************************************************)
EXTENDS Integers, FiniteSets, Sequences

\* ---------------------------------------------------------------- bounds
NumInsts == 2     \* FnCacher values the caller may construct
NumObjs == 3      \* caller-owned objects of type T that can be passed by reference
MaxCalls == 3     \* calls the caller issues in one run

Insts == 1..NumInsts
Objs == 1..NumObjs

\* The value of the caller-owned object o: 0, 1, 1, 2, 2, ...  Objects 2 and 3
\* are distinct objects holding equal values.  The borrow &'a T keeps the value fixed.
ObjVal(o) == o \div 2

Vals == {ObjVal(o) : o \in Objs}

\* T: Hash.  Equal values hash equally; unequal values may collide (0 and 1 do).
Hash(v) == v \div 2

\* ---------------------------------------------------- the bound function
\* Closures the caller can bind (F: Fn(&T) -> R):
\*   identity  |&x| x            (tests::fn_cacher_i32)
\*   square    |x| x * x         (tests::fn_cacher_i32, the doc example)
\*   recip     |x| 12 / x        pure, panics on 0 (integer division by zero)
\*   stateful  |x| if flag.get() { x + 1 } else { *x }
\*             reads a Cell<bool> the caller can change: not pure
NoFn == "none"
Fns == {"identity", "square", "recip", "stateful"}

Pure(f) == f \in {"identity", "square", "recip"}

\* Whether invoking f on value x panics.
Panics(f, x, e) == f = "recip" /\ x = 0

\* The value f returns on x when it does not panic (e: the captured state).
Apply(f, x, e) ==
    CASE f = "identity" -> x
      [] f = "square" -> x * x
      [] f = "recip" -> 12 \div x
      [] f = "stateful" -> IF e THEN x + 1 ELSE x

\* ------------------------------------------------------------ the HashMap
\* A map is a function from the stored key references (objects) to results.
EmptyMap == [k \in {} |-> 0]

\* Variant: keys compared by hash alone.
KeyEqHashOnly(k, a) == Hash(ObjVal(k)) = Hash(ObjVal(a))

\* Variant: keys compared by address of the referent.
KeyEqByAddress(k, a) == k = a

\* Key equality as HashMap sees it: same hash, then Eq on the referents.
KeyEq(k, a) == Hash(ObjVal(k)) = Hash(ObjVal(a)) /\ ObjVal(k) = ObjVal(a)

\* HashMap::get(arg).is_some()
Contains(m, a) == \E k \in DOMAIN m : KeyEq(k, a)

\* HashMap::get(arg) / Index::index(arg), when the key is present
Get(m, a) == m[CHOOSE k \in DOMAIN m : KeyEq(k, a)]

\* Variant: the insert overwrites the value of every entry.
InsertOverwriteAll(m, a, r) == [k \in DOMAIN m \cup {a} |-> r]

\* Variant: the insert drops the entries of the other keys.
InsertClear(m, a, r) == [k \in {a} |-> r]

\* HashMap::insert(arg, result): an equal key keeps the stored key and has
\* its value replaced; otherwise a new entry keyed by the reference is added.
Insert(m, a, r) ==
    IF Contains(m, a)
    THEN [k \in DOMAIN m |-> IF KeyEq(k, a) THEN r ELSE m[k]]
    ELSE [k \in DOMAIN m \cup {a} |-> IF k = a THEN r ELSE m[k]]

\* ------------------------------------------------------------------ state
VARIABLES
    function,   \* function[i]: the closure bound to instance i, NoFn before new
    results,    \* results[i]: the HashMap of instance i
    env,        \* the flag a stateful closure reads
    pc,         \* position of the caller: "idle", or a line of call
    frame,      \* the call in progress, or the last call once it has ended
    invoked,    \* history: invoked[i][v] = invocations of function[i] on value v
    called,     \* history: called[i] = values for which a call returned
    failed,     \* history: failed[i] = values on which the function panicked
    ncalls,     \* history: calls issued so far
    produced    \* history: produced[i][v] = results of the invocations of
                \* function[i] on value v that returned, in order

vars == <<function, results, env, pc, frame, invoked, called, failed, ncalls, produced>>

NoCalls == [v \in Vals |-> 0]

NoFrame ==
    [inst |-> 0, arg |-> 0, hit |-> FALSE, result |-> 0, pre |-> EmptyMap,
     preInvoked |-> NoCalls, outcome |-> "none", ret |-> 0]

Init ==
    /\ function = [i \in Insts |-> NoFn]
    /\ results = [i \in Insts |-> EmptyMap]
    /\ env = FALSE
    /\ pc = "idle"
    /\ frame = NoFrame
    /\ invoked = [i \in Insts |-> NoCalls]
    /\ called = [i \in Insts |-> {}]
    /\ failed = [i \in Insts |-> {}]
    /\ ncalls = 0
    /\ produced = [i \in Insts |-> [v \in Vals |-> <<>>]]

\* Variant: new evaluates the function eagerly on one object.
NewEager(i, f) ==
    /\ pc = "idle"
    /\ function[i] = NoFn
    /\ \A j \in Insts : j < i => function[j] # NoFn
    /\ function' = [function EXCEPT ![i] = f]
    /\ results' = [results EXCEPT ![i] = [k \in {2} |-> Apply(f, ObjVal(2), env)]]
    /\ invoked' = [invoked EXCEPT ![i][ObjVal(2)] = @ + 1]
    /\ UNCHANGED <<env, pc, frame, called, failed, ncalls, produced>>

\* FnCacher::new(function).  Instances are numbered in the order in which
\* the caller constructs them.
New(i, f) ==
    /\ pc = "idle"
    /\ function[i] = NoFn
    /\ \A j \in Insts : j < i => function[j] # NoFn
    /\ function' = [function EXCEPT ![i] = f]
    /\ results' = [results EXCEPT ![i] = EmptyMap]
    /\ UNCHANGED <<env, pc, frame, invoked, called, failed, ncalls, produced>>

\* The caller changes the state a stateful closure reads, between calls.
Tick ==
    /\ pc = "idle"
    /\ env' = ~env
    /\ UNCHANGED <<function, results, pc, frame, invoked, called, failed, ncalls, produced>>

\* Variant: the lookup is skipped, the function is invoked on every call.
CallLookupNoCache(i, a) ==
    /\ pc = "idle"
    /\ function[i] # NoFn
    /\ ncalls < MaxCalls
    /\ ncalls' = ncalls + 1
    /\ frame' = [inst |-> i, arg |-> a, hit |-> Contains(results[i], a),
                 result |-> 0, pre |-> results[i], preInvoked |-> invoked[i],
                 outcome |-> "none", ret |-> 0]
    /\ pc' = "invoke"
    /\ UNCHANGED <<function, results, env, invoked, called, failed, produced>>

\* call, line 42: if self.results.get(arg).is_none()
CallLookup(i, a) ==
    /\ pc = "idle"
    /\ function[i] # NoFn
    /\ ncalls < MaxCalls
    /\ ncalls' = ncalls + 1
    /\ frame' = [inst |-> i, arg |-> a, hit |-> Contains(results[i], a),
                 result |-> 0, pre |-> results[i], preInvoked |-> invoked[i],
                 outcome |-> "none", ret |-> 0]
    /\ pc' = IF Contains(results[i], a) THEN "index" ELSE "invoke"
    /\ UNCHANGED <<function, results, env, invoked, called, failed, produced>>

\* Variant: the function is invoked a second time for the value to insert.
CallInvokeTwice ==
    /\ pc = "invoke"
    /\ LET i == frame.inst
           v == ObjVal(frame.arg)
       IN IF Panics(function[i], v, env)
          THEN /\ invoked' = [invoked EXCEPT ![i][v] = @ + 1]
               /\ frame' = [frame EXCEPT !.outcome = "panic"]
               /\ failed' = [failed EXCEPT ![i] = @ \cup {v}]
               /\ produced' = produced
               /\ pc' = "idle"
          ELSE /\ invoked' = [invoked EXCEPT ![i][v] = @ + 2]
               /\ frame' = [frame EXCEPT !.result = Apply(function[i], v, env)]
               /\ failed' = failed
               /\ produced' = [produced EXCEPT ![i][v] =
                                  Append(Append(@, Apply(function[i], v, env)),
                                         Apply(function[i], v, env))]
               /\ pc' = "insert"
    /\ UNCHANGED <<function, results, env, called, ncalls>>

\* Variant: a panic of the function empties the mapping on the way out.
CallInvokeClearOnPanic ==
    /\ pc = "invoke"
    /\ LET i == frame.inst
           v == ObjVal(frame.arg)
       IN /\ invoked' = [invoked EXCEPT ![i][v] = @ + 1]
          /\ IF Panics(function[i], v, env)
             THEN /\ frame' = [frame EXCEPT !.outcome = "panic"]
                  /\ failed' = [failed EXCEPT ![i] = @ \cup {v}]
                  /\ produced' = produced
                  /\ results' = [results EXCEPT ![i] = EmptyMap]
                  /\ pc' = "idle"
             ELSE /\ frame' = [frame EXCEPT !.result = Apply(function[i], v, env)]
                  /\ failed' = failed
                  /\ produced' = [produced EXCEPT ![i][v] =
                                     Append(@, Apply(function[i], v, env))]
                  /\ results' = results
                  /\ pc' = "insert"
    /\ UNCHANGED <<function, env, called, ncalls>>

\* Variant: a placeholder entry is inserted before the function is invoked.
CallInvokePlaceholder ==
    /\ pc = "invoke"
    /\ LET i == frame.inst
           v == ObjVal(frame.arg)
       IN /\ invoked' = [invoked EXCEPT ![i][v] = @ + 1]
          /\ results' = [results EXCEPT ![i] = Insert(@, frame.arg, 0)]
          /\ IF Panics(function[i], v, env)
             THEN /\ frame' = [frame EXCEPT !.outcome = "panic"]
                  /\ failed' = [failed EXCEPT ![i] = @ \cup {v}]
                  /\ produced' = produced
                  /\ pc' = "idle"
             ELSE /\ frame' = [frame EXCEPT !.result = Apply(function[i], v, env)]
                  /\ failed' = failed
                  /\ produced' = [produced EXCEPT ![i][v] =
                                     Append(@, Apply(function[i], v, env))]
                  /\ pc' = "insert"
    /\ UNCHANGED <<function, env, called, ncalls>>

\* call, line 43: let result = (self.function)(arg);
\* a panic unwinds out of call: nothing after line 43 runs.
CallInvoke ==
    /\ pc = "invoke"
    /\ LET i == frame.inst
           v == ObjVal(frame.arg)
       IN /\ invoked' = [invoked EXCEPT ![i][v] = @ + 1]
          /\ IF Panics(function[i], v, env)
             THEN /\ frame' = [frame EXCEPT !.outcome = "panic"]
                  /\ failed' = [failed EXCEPT ![i] = @ \cup {v}]
                  /\ produced' = produced
                  /\ pc' = "idle"
             ELSE /\ frame' = [frame EXCEPT !.result = Apply(function[i], v, env)]
                  /\ failed' = failed
                  /\ produced' = [produced EXCEPT ![i][v] =
                                     Append(@, Apply(function[i], v, env))]
                  /\ pc' = "insert"
    /\ UNCHANGED <<function, results, env, called, ncalls>>

\* Variant: the insert waits on something that never comes.
CallInsertBlocks ==
    /\ pc = "insert"
    /\ UNCHANGED vars

\* Variant: the insert is left out.
CallInsertSkip ==
    /\ pc = "insert"
    /\ pc' = "index"
    /\ UNCHANGED <<function, results, env, frame, invoked, called, failed, ncalls, produced>>

\* Variant: one mapping is shared by all instances.
CallInsertShared ==
    /\ pc = "insert"
    /\ results' = [i \in Insts |->
                     IF function[i] # NoFn
                     THEN Insert(results[i], frame.arg, frame.result)
                     ELSE results[i]]
    /\ pc' = "index"
    /\ UNCHANGED <<function, env, frame, invoked, called, failed, ncalls, produced>>

\* call, line 44: self.results.insert(arg, result);
CallInsert ==
    /\ pc = "insert"
    /\ results' = [results EXCEPT ![frame.inst] = Insert(@, frame.arg, frame.result)]
    /\ pc' = "index"
    /\ UNCHANGED <<function, env, frame, invoked, called, failed, ncalls, produced>>

\* call, line 46: &self.results[arg]   (Index panics on a missing key)
CallIndex ==
    /\ pc = "index"
    /\ LET i == frame.inst
       IN IF Contains(results[i], frame.arg)
          THEN /\ frame' = [frame EXCEPT !.outcome = "ok",
                                         !.ret = Get(results[i], frame.arg)]
               /\ called' = [called EXCEPT ![i] = @ \cup {ObjVal(frame.arg)}]
          ELSE /\ frame' = [frame EXCEPT !.outcome = "panic"]
               /\ called' = called
    /\ pc' = "idle"
    /\ UNCHANGED <<function, results, env, invoked, failed, ncalls, produced>>

Next ==
    \/ \E i \in Insts, f \in Fns : New(i, f)
    \/ Tick
    \/ \E i \in Insts, a \in Objs : CallLookup(i, a)
    \/ CallInvoke
    \/ CallInsert
    \/ CallIndex

Spec == Init /\ [][Next]_vars

\* call runs synchronously on the caller's thread: once issued, each of its
\* lines is executed.  Issuing a call, constructing and Tick are the caller's choice.
FairSpec ==
    Spec /\ WF_vars(CallInvoke) /\ WF_vars(CallInsert) /\ WF_vars(CallIndex)

TypeOK ==
    /\ function \in [Insts -> Fns \cup {NoFn}]
    /\ env \in BOOLEAN
    /\ ncalls \in 0..MaxCalls
    /\ pc \in {"idle", "invoke", "insert", "index"}
    /\ \A i \in Insts : DOMAIN results[i] \subseteq Objs

\* ------------------------------------------------- vocabulary of the claims
\* The value of the argument of the call in the frame.
ArgVal == ObjVal(frame.arg)

\* A call has been issued: the frame describes it.
InCall == frame.inst \in Insts

\* The call in the frame has ended, by returning or by unwinding.
Done == pc = "idle" /\ frame.outcome # "none"

\* The call in the frame has returned a reference to a result.
Returned == pc = "idle" /\ frame.outcome = "ok"

\* When the call was issued the mapping held an entry with an equal key.
HeldBefore == \E k \in DOMAIN frame.pre : ObjVal(k) = ArgVal

\* The result that entry held.
StoredBefore == frame.pre[CHOOSE k \in DOMAIN frame.pre : ObjVal(k) = ArgVal]

\* The mapping m extended with the entry o -> r.
WithEntry(m, o, r) == [k \in DOMAIN m \cup {o} |-> IF k = o THEN r ELSE m[k]]

\* C1: with a pure function f bound, every call(a) that returns, the first
\* one and every repeat, returns a value equal to f(a).
C1_ReturnsFOfArg ==
    (Returned /\ Pure(function[frame.inst]))
        => frame.ret = Apply(function[frame.inst], ArgVal, env)

\* A repeated call on a pure function has returned.
C1_Witness ==
    /\ Returned
    /\ Pure(function[frame.inst])
    /\ HeldBefore
    /\ frame.ret = Apply(function[frame.inst], ArgVal, env)

\* C2: on an instance whose function has never failed, the function has been
\* invoked at most once per distinct argument value, and exactly once for
\* every value for which a call has been answered.
C2_AtMostOncePerValue ==
    \A i \in Insts :
        failed[i] = {} =>
            \A v \in Vals :
                /\ invoked[i][v] <= 1
                /\ (v \in called[i] => invoked[i][v] = 1)
                /\ (pc = "idle" /\ v \notin called[i] => invoked[i][v] = 0)

\* A value has been queried a second time, through another object, and the
\* function has still run once on it.
C2_Witness ==
    /\ Returned
    /\ HeldBefore
    /\ frame.arg \notin DOMAIN frame.pre
    /\ failed[frame.inst] = {}
    /\ invoked[frame.inst][ArgVal] = 1

\* C3: a call(a) issued while the cache holds an entry whose key equals a
\* returns the stored result, does not invoke the function, and leaves the
\* keys and the values of the mapping unchanged.
C3_HitLeavesCacheAlone ==
    (InCall /\ HeldBefore) =>
        /\ results[frame.inst] = frame.pre
        /\ invoked[frame.inst] = frame.preInvoked
        /\ (pc = "idle" => frame.outcome = "ok" /\ frame.ret = StoredBefore)

\* A call has returned on a hit.
C3_Witness ==
    /\ Returned
    /\ HeldBefore
    /\ frame.ret = StoredBefore
    /\ results[frame.inst] = frame.pre

\* C4: a call(a) issued while the cache holds no entry with a key equal to a
\* invokes the function exactly once with a; when the function returns, its
\* result is stored under key a and the call returns that stored result.
C4_MissInvokesOnceAndStores ==
    (Done /\ ~HeldBefore) =>
        /\ invoked[frame.inst] =
              [frame.preInvoked EXCEPT ![ArgVal] = @ + 1]
        /\ frame.outcome = "ok" =>
              /\ results[frame.inst] = WithEntry(frame.pre, frame.arg, frame.result)
              /\ frame.ret = frame.result
              /\ Pure(function[frame.inst]) =>
                    frame.result = Apply(function[frame.inst], ArgVal, env)

\* A call has returned on a miss, into a mapping that already held an entry.
C4_Witness ==
    /\ Returned
    /\ ~HeldBefore
    /\ frame.pre # EmptyMap
    /\ frame.arg \in DOMAIN results[frame.inst]

\* C5: between calls, the mapping of an instance holds exactly as many
\* entries as there are distinct argument values among the calls that
\* returned, however many calls were made; a call with a key equal to a
\* stored one does not grow the mapping.
C5_OneEntryPerDistinctValue ==
    /\ pc = "idle" =>
          \A i \in Insts : Cardinality(DOMAIN results[i]) = Cardinality(called[i])
    /\ (InCall /\ HeldBefore) =>
          Cardinality(DOMAIN results[frame.inst]) = Cardinality(DOMAIN frame.pre)

\* Three calls on two distinct values have left two entries.
C5_Witness ==
    /\ Returned
    /\ ncalls = 3
    /\ \E i \in Insts :
          /\ Cardinality(called[i]) = 2
          /\ Cardinality(DOMAIN results[i]) = 2
          /\ \A j \in Insts \ {i} : results[j] = EmptyMap

\* C6: in every state of an instance built on a pure function f, each key
\* present in the mapping is associated with a value equal to f(key).
C6_StoredValueIsFOfKey ==
    \A i \in Insts :
        Pure(function[i]) =>
            \A k \in DOMAIN results[i] :
                results[i][k] = Apply(function[i], ObjVal(k), env)

\* A pure instance holds entries for two distinct values.
C6_Witness ==
    \E i \in Insts :
        /\ Pure(function[i])
        /\ \E k1, k2 \in DOMAIN results[i] : ObjVal(k1) # ObjVal(k2)
        /\ \A k \in DOMAIN results[i] :
              results[i][k] = Apply(function[i], ObjVal(k), env)

\* C7: if the function panics during call(a), the panic reaches the caller,
\* no entry is stored for a (the mapping is as it was), and a later call(a)
\* invokes the function again.
C7_PanicStoresNothing ==
    /\ (Done /\ ~HeldBefore /\ Panics(function[frame.inst], ArgVal, env))
          => frame.outcome = "panic"
    /\ (Done /\ frame.outcome = "panic") =>
          /\ ArgVal \in failed[frame.inst]
          /\ results[frame.inst] = frame.pre
          /\ \A k \in DOMAIN results[frame.inst] : ObjVal(k) # ArgVal
    /\ (Done /\ ArgVal \in failed[frame.inst] /\ frame.preInvoked[ArgVal] >= 1)
          => invoked[frame.inst][ArgVal] = frame.preInvoked[ArgVal] + 1

\* A second call on a value on which the function panicked has invoked the
\* function a second time, with another entry left in place.
C7_Witness ==
    /\ Done
    /\ frame.outcome = "panic"
    /\ frame.preInvoked[ArgVal] = 1
    /\ invoked[frame.inst][ArgVal] = 2
    /\ results[frame.inst] # EmptyMap
    /\ results[frame.inst] = frame.pre

\* C8: new yields an instance whose mapping is empty and does not invoke the
\* function; an instance not yet constructed has no entries; and entries
\* appear only in the insert of a call whose key was not present, one at a time.
C8_NewIsEmptyAndLazy ==
    [][\A i \in Insts :
          /\ function[i] = NoFn => results[i] = EmptyMap /\ invoked[i] = NoCalls
          /\ (function[i] = NoFn /\ function'[i] # NoFn) =>
                /\ results'[i] = EmptyMap
                /\ invoked' = invoked
                /\ pc' = "idle"
          /\ results'[i] # results[i] =>
                /\ pc = "insert"
                /\ frame.inst = i
                /\ ~HeldBefore
                /\ frame.arg \notin DOMAIN results[i]
                /\ results'[i] = WithEntry(results[i], frame.arg, frame.result)
      ]_vars

\* A second instance has been constructed, empty, while the first holds an entry.
C8_Witness ==
    /\ pc = "idle"
    /\ function[2] # NoFn
    /\ results[2] = EmptyMap
    /\ invoked[2] = NoCalls
    /\ results[1] # EmptyMap

\* C9: a call(a), hit or miss, neither adds, removes nor changes the entry
\* of any argument b whose value differs from that of a.
C9_OtherKeysUntouched ==
    InCall =>
        \A b \in Objs :
            ObjVal(b) # ArgVal =>
                /\ (b \in DOMAIN results[frame.inst]) = (b \in DOMAIN frame.pre)
                /\ (b \in DOMAIN frame.pre =>
                       results[frame.inst][b] = frame.pre[b])

\* A miss on a has stored its entry next to the entry of b, which is as before.
C9_Witness ==
    /\ Returned
    /\ ~HeldBefore
    /\ \E b \in DOMAIN frame.pre :
          /\ ObjVal(b) # ArgVal
          /\ b \in DOMAIN results[frame.inst]
          /\ results[frame.inst][b] = frame.pre[b]

\* C10: when a1 and a2 are distinct objects holding equal values, a call(a2)
\* issued after call(a1) returns the result cached for a1, without invoking
\* the function and without adding a second entry.
C10_EqualValueOtherObjectHits ==
    Done =>
        \A a1 \in DOMAIN frame.pre :
            (a1 # frame.arg /\ ObjVal(a1) = ArgVal) =>
                /\ frame.outcome = "ok"
                /\ frame.ret = frame.pre[a1]
                /\ invoked[frame.inst] = frame.preInvoked
                /\ DOMAIN results[frame.inst] = DOMAIN frame.pre
                /\ frame.arg \notin DOMAIN results[frame.inst]

\* call(a2) has returned the result stored under a1.
C10_Witness ==
    /\ Returned
    /\ \E a1 \in DOMAIN frame.pre :
          /\ a1 # frame.arg
          /\ ObjVal(a1) = ArgVal
          /\ frame.ret = results[frame.inst][a1]
    /\ Cardinality(DOMAIN results[frame.inst]) = 1

\* The values of the keys of the mapping m.
KeyVals(m) == {ObjVal(k) : k \in DOMAIN m}

\* A step of a call: its lookup or one of the lines after it.
CallStep == pc # "idle" \/ pc' # "idle"

\* C11: for each key of an instance the change from no entry to an entry
\* happens at most once and is never undone: no step removes an entry or
\* replaces its stored value, and no value ever has two entries.
C11_EntriesAreForever ==
    [][\A i \in Insts :
          /\ \A k \in DOMAIN results[i] :
                k \in DOMAIN results'[i] /\ results'[i][k] = results[i][k]
          /\ \A k1, k2 \in DOMAIN results'[i] :
                ObjVal(k1) = ObjVal(k2) => k1 = k2
      ]_vars

\* Three calls have been answered and every entry the mapping held before
\* the last one is still there.
C11_Witness ==
    /\ Returned
    /\ ncalls = 3
    /\ frame.pre # EmptyMap
    /\ \A k \in DOMAIN frame.pre :
          k \in DOMAIN results[frame.inst] /\ results[frame.inst][k] = frame.pre[k]

\* C12: the steps of a call change no state of the program but the mapping
\* of the instance called: the bound functions stay, the other mappings stay,
\* no existing entry changes, and over the whole call at most one entry is
\* added, keyed by the argument.
C12_CallOnlyGrowsMapping ==
    /\ [][CallStep =>
            /\ function' = function
            /\ env' = env
            /\ \A j \in Insts \ {frame'.inst} : results'[j] = results[j]
            /\ \A k \in DOMAIN results[frame'.inst] :
                  /\ k \in DOMAIN results'[frame'.inst]
                  /\ results'[frame'.inst][k] = results[frame'.inst][k]
            /\ DOMAIN results'[frame'.inst]
                  \subseteq DOMAIN results[frame'.inst] \cup {frame'.arg}
         ]_vars
    /\ [](InCall =>
            \/ results[frame.inst] = frame.pre
            \/ /\ frame.arg \notin DOMAIN frame.pre
               /\ results[frame.inst] =
                     WithEntry(frame.pre, frame.arg, frame.result))

\* A call on a stateful function has added one entry.
C12_Witness ==
    /\ Returned
    /\ function[frame.inst] = "stateful"
    /\ Cardinality(DOMAIN results[frame.inst]) = Cardinality(DOMAIN frame.pre) + 1

\* The lines of call still ahead at each position.
Rank(p) ==
    CASE p = "invoke" -> 3
      [] p = "insert" -> 2
      [] p = "index" -> 1
      [] p = "idle" -> 0

\* C13: a call is one synchronous sequence of steps: the lookup, then on a
\* miss one invocation and one insert, then the index.  While a call runs
\* its next line can always be executed (it waits on nothing), every step
\* brings it nearer to its end, and it ends by returning a result or by
\* passing on the panic of the function.
C13_CallTerminates ==
    /\ [](pc # "idle" => ENABLED <<CallInvoke \/ CallInsert \/ CallIndex>>_vars)
    /\ [][/\ pc # "idle" => Rank(pc') < Rank(pc)
          /\ pc = "idle" => pc' \in {"idle", "invoke", "index"}
          /\ (pc # "idle" /\ pc' = "idle") => frame'.outcome \in {"ok", "panic"}
         ]_vars

\* C13, under fairness: a call that has been issued eventually ends.
C13_EventuallyEnds == (pc # "idle") ~> Done

\* A call that went through the invocation and the insert has returned.
C13_Witness ==
    /\ Returned
    /\ ~HeldBefore
    /\ Len(produced[frame.inst][ArgVal]) = 1
    /\ ncalls = 1

\* C14: with a function that is not pure, every call(a) after the first one
\* that returned still returns the value the first invocation on a produced,
\* and the function is not invoked on a again.
C14_NeverInvalidates ==
    (Returned /\ ~Pure(function[frame.inst])) =>
        /\ Len(produced[frame.inst][ArgVal]) = 1
        /\ frame.ret = produced[frame.inst][ArgVal][1]
        /\ invoked[frame.inst][ArgVal] = 1

\* A hit has returned a value the function would no longer produce.
C14_Witness ==
    /\ Returned
    /\ ~Pure(function[frame.inst])
    /\ HeldBefore
    /\ frame.ret # Apply(function[frame.inst], ArgVal, env)
    /\ frame.ret = produced[frame.inst][ArgVal][1]

\* C15: instances share no cache state: the steps of a call on one instance
\* change neither the mapping nor the invocation counts of another, and a
\* call on an instance whose mapping is empty invokes the function, whatever
\* the other instances hold.
C15_InstancesAreSeparate ==
    /\ [][CallStep =>
            \A j \in Insts \ {frame'.inst} :
                results'[j] = results[j] /\ invoked'[j] = invoked[j]
         ]_vars
    /\ [](\A i \in Insts : function[i] # NoFn =>
             KeyVals(results[i]) \subseteq
                 {v \in Vals : Len(produced[i][v]) >= 1})
    /\ []((Done /\ frame.pre = EmptyMap) =>
             invoked[frame.inst][ArgVal] = frame.preInvoked[ArgVal] + 1)

\* A key evaluated on one instance has been evaluated again on another,
\* whose mapping was empty.
C15_Witness ==
    /\ Returned
    /\ frame.pre = EmptyMap
    /\ invoked[frame.inst][ArgVal] = 1
    /\ \E j \in Insts \ {frame.inst} : ArgVal \in KeyVals(results[j])

\* C16: a call(a) in which the function panics leaves the whole mapping as
\* it was before the call; afterwards the entries of the other keys are
\* still returned by calls, without invoking the function.
C16_PanicLeavesMappingIntact ==
    /\ (Done /\ frame.outcome = "panic") =>
          /\ DOMAIN results[frame.inst] = DOMAIN frame.pre
          /\ \A k \in DOMAIN frame.pre : results[frame.inst][k] = frame.pre[k]
    /\ \A i \in Insts :
          failed[i] # {} =>
              \A v \in called[i] :
                  /\ v \in KeyVals(results[i])
                  /\ Len(produced[i][v]) = 1
                  /\ \A k \in DOMAIN results[i] :
                        ObjVal(k) = v => results[i][k] = produced[i][v][1]
    /\ (Done /\ HeldBefore /\ failed[frame.inst] # {}) =>
          /\ frame.outcome = "ok"
          /\ frame.ret = StoredBefore
          /\ invoked[frame.inst] = frame.preInvoked

\* After a panic on one key, a call on another key has returned its entry.
C16_Witness ==
    /\ Returned
    /\ HeldBefore
    /\ \E v \in failed[frame.inst] : frame.preInvoked[v] >= 1
    /\ frame.ret = StoredBefore

RECURSIVE SumLen(_, _)
\* The number of invocations of function[i] on the values of S that returned.
SumLen(i, S) ==
    IF S = {} THEN 0
    ELSE LET v == CHOOSE x \in S : TRUE
         IN Len(produced[i][v]) + SumLen(i, S \ {v})

\* C17: between calls, the keys of the mapping are exactly the argument
\* values for which a call has returned, and the entries are as many as the
\* invocations of the function that returned, one invocation per entry.
\* Inside a call the only difference is the entry of the call in progress.
C17_KeysAreAnsweredValues ==
    \A i \in Insts :
        /\ pc # "index" => KeyVals(results[i]) = called[i]
        /\ pc = "index" =>
              KeyVals(results[i]) =
                  called[i] \cup (IF i = frame.inst THEN {ArgVal} ELSE {})
        /\ pc # "insert" =>
              /\ Cardinality(DOMAIN results[i]) = SumLen(i, Vals)
              /\ \A v \in Vals :
                    Len(produced[i][v]) = IF v \in KeyVals(results[i]) THEN 1 ELSE 0
        /\ pc = "insert" =>
              Cardinality(DOMAIN results[i]) + (IF i = frame.inst THEN 1 ELSE 0)
                  = SumLen(i, Vals)

\* Two entries from two invocations that returned, next to one that panicked.
C17_Witness ==
    /\ pc = "idle"
    /\ \E i \in Insts :
          /\ failed[i] # {}
          /\ Cardinality(called[i]) = 1
          /\ KeyVals(results[i]) = called[i]
          /\ SumLen(i, Vals) = 1
          /\ \E v \in Vals : invoked[i][v] = 2

\* C18: on a miss the function is invoked before the insert, and the value
\* returned is read from the mapping after the insert: when call reaches its
\* last line an entry keyed by the argument is present, so the index never
\* fails and a call ends in a panic only when the function panicked.
C18_InvokeThenInsertThenIndex ==
    /\ pc = "invoke" =>
          /\ results[frame.inst] = frame.pre
          /\ invoked[frame.inst] = frame.preInvoked
    /\ pc = "insert" =>
          /\ results[frame.inst] = frame.pre
          /\ invoked[frame.inst][ArgVal] = frame.preInvoked[ArgVal] + 1
    /\ pc = "index" =>
          /\ ArgVal \in KeyVals(results[frame.inst])
          /\ ~HeldBefore =>
                /\ frame.arg \in DOMAIN results[frame.inst]
                /\ results[frame.inst][frame.arg] = frame.result
                /\ invoked[frame.inst][ArgVal] = frame.preInvoked[ArgVal] + 1
    /\ (Done /\ frame.outcome = "ok") =>
          /\ ArgVal \in KeyVals(results[frame.inst])
          /\ \A k \in DOMAIN results[frame.inst] :
                ObjVal(k) = ArgVal => frame.ret = results[frame.inst][k]
    /\ (Done /\ frame.outcome = "panic") =>
          /\ ~HeldBefore
          /\ Panics(function[frame.inst], ArgVal, env)
          /\ invoked[frame.inst][ArgVal] = frame.preInvoked[ArgVal] + 1

\* The call is at its last line after a miss, the fresh entry in place.
C18_Witness ==
    /\ pc = "index"
    /\ ~HeldBefore
    /\ frame.arg \in DOMAIN results[frame.inst]
    /\ results[frame.inst][frame.arg] = frame.result
====
